---- MODULE Spec2Model ----
(***************************************************************************)
(* Model of the invoice field-extraction and filename pipeline:            *)
(*   processes/P06_class_items.py      InvoiceMetadata, InvoiceFinancials  *)
(*   processes/P03_shared_functions.py extract_field, clean_currency,      *)
(*                                     check_existing_filename             *)
(*                                                                         *)
(* Python strings are sequences of one-character strings, so formatting    *)
(* (strftime, f-strings) and parsing (strptime, float) are computed        *)
(* character by character.  A Python value that may be None is a record    *)
(* [type, val].  Money is an integer number of pence.                      *)
(***************************************************************************)
EXTENDS Integers, Sequences, FiniteSets, TLC

(***************************************************************************)
(* Python values                                                           *)
(***************************************************************************)
None == [type |-> "NoneType", val |-> <<>>]
Str(s) == [type |-> "str", val |-> s]
DateTime(y, m, d) == [type |-> "datetime", val |-> <<y, m, d>>]
Year(dt) == dt.val[1]
Month(dt) == dt.val[2]
Day(dt) == dt.val[3]

IsNone(v) == v.type = "NoneType"

\* float("nan"), the value pandas gives a missing cell.
NaN == [type |-> "float", val |-> <<>>]

\* Python truthiness of None / str / float, as used by `x or default` and all():
\* None, "" and 0.0 are false; NaN, being a float other than 0.0, is true.
Truthy(v) ==
    \/ v.type = "str" /\ v.val # <<>>
    \/ v.type = "float" /\ (v = NaN \/ v.val[1] # 0)

(***************************************************************************)
(* Characters                                                              *)
(***************************************************************************)
DigitChars == <<"0", "1", "2", "3", "4", "5", "6", "7", "8", "9">>
UpperChars == <<"A", "B", "C", "D", "E", "F", "G", "H", "I", "J", "K", "L", "M",
                "N", "O", "P", "Q", "R", "S", "T", "U", "V", "W", "X", "Y", "Z">>
LowerChars == <<"a", "b", "c", "d", "e", "f", "g", "h", "i", "j", "k", "l", "m",
                "n", "o", "p", "q", "r", "s", "t", "u", "v", "w", "x", "y", "z">>

IsDigit(c) == \E i \in 1..10 : DigitChars[i] = c
DigitVal(c) == (CHOOSE i \in 1..10 : DigitChars[i] = c) - 1

\* str.lower() on one character, and on a string.
LowerChar(c) ==
    IF \E i \in 1..26 : UpperChars[i] = c
    THEN LowerChars[CHOOSE i \in 1..26 : UpperChars[i] = c]
    ELSE c
Lower(s) == [i \in 1..Len(s) |-> LowerChar(s[i])]

AllDigits(s) == \A i \in 1..Len(s) : IsDigit(s[i])

RECURSIVE NumVal(_)
NumVal(s) == IF s = <<>> THEN 0
             ELSE 10 * NumVal(SubSeq(s, 1, Len(s) - 1)) + DigitVal(s[Len(s)])

\* Zero-padded decimal of n in (at least) w characters: "%02d", "%04d".
RECURSIVE Pad(_, _)
Pad(n, w) == IF w <= 1 /\ n < 10 THEN <<DigitChars[n + 1]>>
             ELSE Pad(n \div 10, w - 1) \o <<DigitChars[(n % 10) + 1]>>

\* str(n) for a natural number.
Decimal(n) == Pad(n, 1)

\* str.startswith
StartsWith(s, p) == Len(s) >= Len(p) /\ SubSeq(s, 1, Len(p)) = p

\* str.split(sep) for a one-character separator: the fields between separators.
RECURSIVE SplitAt(_, _)
SplitAt(s, sep) ==
    IF s = <<>> THEN << <<>> >>
    ELSE LET rest == SplitAt(Tail(s), sep)
         IN  IF Head(s) = sep THEN << <<>> >> \o rest
             ELSE << <<Head(s)>> \o Head(rest) >> \o Tail(rest)

(***************************************************************************)
(* datetime: calendar, ordinals, timedelta                                 *)
(***************************************************************************)
IsLeap(y) == y % 4 = 0 /\ (y % 100 # 0 \/ y % 400 = 0)

DaysInMonth(y, m) ==
    IF m = 2 THEN (IF IsLeap(y) THEN 29 ELSE 28)
    ELSE IF m \in {4, 6, 9, 11} THEN 30 ELSE 31

RECURSIVE DaysBeforeMonth(_, _)
DaysBeforeMonth(y, m) ==
    IF m = 1 THEN 0 ELSE DaysBeforeMonth(y, m - 1) + DaysInMonth(y, m - 1)

\* Days before January 1st of year y.
DaysBeforeYear(y) ==
    LET p == y - 1 IN p * 365 + p \div 4 - p \div 100 + p \div 400

\* datetime.toordinal()
ToOrdinal(dt) == DaysBeforeYear(Year(dt)) + DaysBeforeMonth(Year(dt), Month(dt)) + Day(dt)

\* datetime.fromordinal(n)
FromOrdinal(n) ==
    LET y == CHOOSE yy \in (n \div 366)..(n \div 365 + 1) :
                 DaysBeforeYear(yy) < n /\ n <= DaysBeforeYear(yy + 1)
        r == n - DaysBeforeYear(y)
        m == CHOOSE mm \in 1..12 :
                 DaysBeforeMonth(y, mm) < r /\ r <= DaysBeforeMonth(y, mm) + DaysInMonth(y, mm)
    IN  DateTime(y, m, r - DaysBeforeMonth(y, m))

\* A day count added to the day field alone, with no carry into the month.
AddDaysNoCarry(dt, n) == DateTime(Year(dt), Month(dt), Day(dt) + n)

\* dt + timedelta(days=n)
AddDays(dt, n) == FromOrdinal(ToOrdinal(dt) + n)

\* The comparison that also holds of equal dates.
NotAfter(dt1, dt2) == ToOrdinal(dt1) <= ToOrdinal(dt2)

\* dt1 < dt2 (both at midnight)
Before(dt1, dt2) == ToOrdinal(dt1) < ToOrdinal(dt2)

\* datetime(y, m, d) raises ValueError outside these ranges.
ValidDate(y, m, d) ==
    y \in 1..9999 /\ m \in 1..12 /\ d >= 1 /\ d <= DaysInMonth(y, m)

(***************************************************************************)
(* strftime / strptime for the directives the program uses                 *)
(***************************************************************************)
MonthAbbr == << <<"J","a","n">>, <<"F","e","b">>, <<"M","a","r">>, <<"A","p","r">>,
                <<"M","a","y">>, <<"J","u","n">>, <<"J","u","l">>, <<"A","u","g">>,
                <<"S","e","p">>, <<"O","c","t">>, <<"N","o","v">>, <<"D","e","c">> >>
MonthFull == << <<"J","a","n","u","a","r","y">>, <<"F","e","b","r","u","a","r","y">>,
                <<"M","a","r","c","h">>, <<"A","p","r","i","l">>, <<"M","a","y">>,
                <<"J","u","n","e">>, <<"J","u","l","y">>, <<"A","u","g","u","s","t">>,
                <<"S","e","p","t","e","m","b","e","r">>, <<"O","c","t","o","b","e","r">>,
                <<"N","o","v","e","m","b","e","r">>, <<"D","e","c","e","m","b","e","r">> >>

\* strftime("%Y-%m-%d"), ("%Y-%m"), ("%m/%y"), ("%y.%m.%d")
FormatISO(dt) == Pad(Year(dt), 4) \o <<"-">> \o Pad(Month(dt), 2) \o <<"-">> \o Pad(Day(dt), 2)
FormatYearMonth(dt) == Pad(Year(dt), 4) \o <<"-">> \o Pad(Month(dt), 2)
FormatMonthYear(dt) == Pad(Month(dt), 2) \o <<"/">> \o Pad(Year(dt) % 100, 2)
FormatFileDate(dt) ==
    Pad(Year(dt) % 100, 2) \o <<".">> \o Pad(Month(dt), 2) \o <<".">> \o Pad(Day(dt), 2)

\* One strptime directive applied to one field: [ok, val].
\*   %Y  \d\d\d\d          %m  1[0-2]|0[1-9]|[1-9]
\*   %d  3[01]|[12]\d|0[1-9]|[1-9]| [1-9]
\*   %b / %B  a month name of the table, compared case-insensitively
ParseField(dir, f) ==
    CASE dir = "%Y" ->
           IF Len(f) = 4 /\ AllDigits(f) THEN [ok |-> TRUE, val |-> NumVal(f)]
           ELSE [ok |-> FALSE, val |-> 0]
      [] dir = "%m" ->
           IF Len(f) \in {1, 2} /\ AllDigits(f) /\ NumVal(f) \in 1..12
           THEN [ok |-> TRUE, val |-> NumVal(f)]
           ELSE [ok |-> FALSE, val |-> 0]
      [] dir = "%d" ->
           IF Len(f) \in {1, 2} /\ AllDigits(f) /\ NumVal(f) \in 1..31
           THEN [ok |-> TRUE, val |-> NumVal(f)]
           ELSE IF Len(f) = 2 /\ f[1] = " " /\ IsDigit(f[2]) /\ DigitVal(f[2]) >= 1
           THEN [ok |-> TRUE, val |-> DigitVal(f[2])]
           ELSE [ok |-> FALSE, val |-> 0]
      [] dir = "%b" ->
           IF \E i \in 1..12 : Lower(MonthAbbr[i]) = Lower(f)
           THEN [ok |-> TRUE, val |-> CHOOSE i \in 1..12 : Lower(MonthAbbr[i]) = Lower(f)]
           ELSE [ok |-> FALSE, val |-> 0]
      [] dir = "%B" ->
           IF \E i \in 1..12 : Lower(MonthFull[i]) = Lower(f)
           THEN [ok |-> TRUE, val |-> CHOOSE i \in 1..12 : Lower(MonthFull[i]) = Lower(f)]
           ELSE [ok |-> FALSE, val |-> 0]

\* The accepted formats, in the order the constructor tries them.  Each is
\* three directives joined by one literal separator character.
Formats == << [sep |-> "-", year |-> 1, month |-> 2, day |-> 3, dirs |-> <<"%Y", "%m", "%d">>],
              [sep |-> "/", year |-> 3, month |-> 2, day |-> 1, dirs |-> <<"%d", "%m", "%Y">>],
              [sep |-> "-", year |-> 3, month |-> 2, day |-> 1, dirs |-> <<"%d", "%b", "%Y">>],
              [sep |-> "-", year |-> 3, month |-> 2, day |-> 1, dirs |-> <<"%d", "%B", "%Y">>] >>

\* datetime.strptime(s, fmt): [ok |-> TRUE, val |-> datetime] or ValueError.
ValueError == [ok |-> FALSE, val |-> None]

\* strptime without the check that the day exists in its month.
StrptimeAnyDay(s, fmt) ==
    LET fs == SplitAt(s, fmt.sep)
    IN  IF Len(fs) # 3 THEN ValueError
        ELSE LET p == [i \in 1..3 |-> ParseField(fmt.dirs[i], fs[i])]
             IN  IF \A i \in 1..3 : p[i].ok
                 THEN [ok |-> TRUE,
                       val |-> DateTime(p[fmt.year].val, p[fmt.month].val, p[fmt.day].val)]
                 ELSE ValueError

Strptime(s, fmt) ==
    LET fs == SplitAt(s, fmt.sep)
    IN  IF Len(fs) # 3 THEN ValueError
        ELSE LET p == [i \in 1..3 |-> ParseField(fmt.dirs[i], fs[i])]
                 y == p[fmt.year].val
                 m == p[fmt.month].val
                 d == p[fmt.day].val
             IN  IF (\A i \in 1..3 : p[i].ok) /\ ValidDate(y, m, d)
                 THEN [ok |-> TRUE, val |-> DateTime(y, m, d)]
                 ELSE ValueError

(***************************************************************************)
(* InvoiceMetadata                                                         *)
(***************************************************************************)
UNKNOWN == <<"U", "N", "K", "N", "O", "W", "N">>
GUK == <<"G", "U", "K">>
InvoiceSuffix == <<" ", "i", "n", "v", "o", "i", "c", "e">>
short_vendor_name == <<"B", "l", "a", "k", "e", "m", "o", "r", "e">>

DueDays == 7
ThresholdDays == 3

\* The `for fmt in (...)` loop of __init__: the result of the first format,
\* from index i on, that parses; ValueError when the loop runs to its else.
RECURSIVE FirstParse(_, _)
FirstParse(s, i) ==
    IF i > Len(Formats) THEN ValueError
    ELSE IF Strptime(s, Formats[i]).ok THEN Strptime(s, Formats[i])
    ELSE FirstParse(s, i + 1)

\* InvoiceMetadata.__init__(invoice_no, invoice_date, po_reference, invoice_type)
InvoiceMetadata(invoice_no, invoice_date, po_reference, invoice_type) ==
    LET parsed == FirstParse(invoice_date, 1)
    IN  IF parsed.ok
        THEN [invoice_no |-> invoice_no,
              po_reference |-> po_reference,
              invoice_type |-> invoice_type,
              original_invoice_date |-> parsed.val,
              invoice_date |-> FormatISO(parsed.val),
              due_date |-> FormatISO(AddDays(parsed.val, DueDays)),
              po_month |-> FormatYearMonth(parsed.val)]
        ELSE [invoice_no |-> invoice_no,
              po_reference |-> po_reference,
              invoice_type |-> invoice_type,
              original_invoice_date |-> None,
              invoice_date |-> UNKNOWN,
              due_date |-> UNKNOWN,
              po_month |-> UNKNOWN]

\* The month line written after the old GUK reference instead of before it.
RedatedReferenceAppended(po_month, po_reference) ==
    IF StartsWith(po_reference.val, GUK)
    THEN Str(po_reference.val \o <<"\n">> \o po_month \o InvoiceSuffix)
    ELSE Str(po_month \o InvoiceSuffix)

\* The PO reference written by the overdue branch (lines 106-109); the caller
\* has established that po_reference is a str.
RedatedReference(po_month, po_reference) ==
    IF StartsWith(po_reference.val, GUK)
    THEN Str(po_month \o InvoiceSuffix \o <<"\n">> \o po_reference.val)
    ELSE Str(po_month \o InvoiceSuffix)

\* The month tag taken after the invoice has been re-dated, so that it names
\* the current month.
AdjustTagAfterRedate(self, now) ==
    LET first_of_month == DateTime(Year(now), Month(now), 1)
        date_threshold == AddDays(first_of_month, 0 - ThresholdDays)
        parsed == Strptime(self.invoice_date, Formats[1])
    IN  IF ~parsed.ok
        THEN [self EXCEPT !.po_month = UNKNOWN]
        ELSE IF ~Before(parsed.val, date_threshold)
        THEN [self EXCEPT !.po_month = FormatMonthYear(parsed.val)]
        ELSE IF self.po_reference.type # "str"
        THEN [self EXCEPT !.invoice_date = FormatISO(first_of_month),
                          !.po_month = UNKNOWN]
        ELSE [self EXCEPT !.invoice_date = FormatISO(first_of_month),
                          !.po_month = FormatMonthYear(first_of_month),
                          !.po_reference =
                              RedatedReference(FormatMonthYear(first_of_month),
                                               self.po_reference)]

\* The threshold counted back from today instead of from the first of the
\* month.
AdjustThresholdFromToday(self, now) ==
    LET first_of_month == DateTime(Year(now), Month(now), 1)
        date_threshold == AddDays(now, 0 - ThresholdDays)
        parsed == Strptime(self.invoice_date, Formats[1])
    IN  IF ~parsed.ok
        THEN [self EXCEPT !.po_month = UNKNOWN]
        ELSE IF ~Before(parsed.val, date_threshold)
        THEN [self EXCEPT !.po_month = FormatMonthYear(parsed.val)]
        ELSE IF self.po_reference.type # "str"
        THEN [self EXCEPT !.invoice_date = FormatISO(first_of_month),
                          !.po_month = UNKNOWN]
        ELSE [self EXCEPT !.invoice_date = FormatISO(first_of_month),
                          !.po_month = FormatMonthYear(parsed.val),
                          !.po_reference =
                              RedatedReference(FormatMonthYear(parsed.val),
                                               self.po_reference)]

\* The except clause that leaves po_month as the try block set it.
AdjustKeepingTagOnError(self, now) ==
    LET first_of_month == DateTime(Year(now), Month(now), 1)
        date_threshold == AddDays(first_of_month, 0 - ThresholdDays)
        parsed == Strptime(self.invoice_date, Formats[1])
    IN  IF ~parsed.ok
        THEN self
        ELSE IF ~Before(parsed.val, date_threshold)
        THEN [self EXCEPT !.po_month = FormatMonthYear(parsed.val)]
        ELSE IF self.po_reference.type # "str"
        THEN [self EXCEPT !.invoice_date = FormatISO(first_of_month),
                          !.po_month = FormatMonthYear(parsed.val)]
        ELSE [self EXCEPT !.invoice_date = FormatISO(first_of_month),
                          !.po_month = FormatMonthYear(parsed.val),
                          !.po_reference =
                              RedatedReference(FormatMonthYear(parsed.val),
                                               self.po_reference)]

\* InvoiceMetadata.adjust_invoice_date_if_overdue with datetime.today() = now:
\* the object after the call.  Nothing is rolled back when the except clause
\* runs: an assignment made before the exception stays.
AdjustInvoiceDateIfOverdue(self, now) ==
    LET first_of_month == DateTime(Year(now), Month(now), 1)
        date_threshold == AddDays(first_of_month, 0 - ThresholdDays)
        parsed == Strptime(self.invoice_date, Formats[1])
    IN  IF ~parsed.ok
        THEN [self EXCEPT !.po_month = UNKNOWN]
        ELSE LET original_invoice_date == parsed.val
                 po_month == FormatMonthYear(original_invoice_date)
             IN  IF ~Before(original_invoice_date, date_threshold)
                 THEN [self EXCEPT !.po_month = po_month]
                 ELSE IF self.po_reference.type # "str"
                 THEN \* AttributeError at line 106, caught at line 111
                      [self EXCEPT !.invoice_date = FormatISO(first_of_month),
                                   !.po_month = UNKNOWN]
                 ELSE [self EXCEPT !.invoice_date = FormatISO(first_of_month),
                                   !.po_month = po_month,
                                   !.po_reference = RedatedReference(po_month, self.po_reference)]

(***************************************************************************)
(* InvoiceFinancials (amounts in pence)                                    *)
(***************************************************************************)
Num(n) == [type |-> "float", val |-> <<n>>]
NumOf(v) == v.val[1]
Abs(x) == IF x < 0 THEN 0 - x ELSE x

DefaultTolerance == 1

total_net(self) == self.net_0 + self.net_5 + self.net_20
total_vat(self) == self.vat_0 + self.vat_5 + self.vat_20
total_gross(self) == total_net(self) + total_vat(self)

\* validate_totals that takes an expected total of zero for one not supplied
\* (`if self.expected_net_total:` in place of `is not None`).
ValidateTotalsByTruth(self, tolerance) ==
    LET given(v) == ~IsNone(v) /\ NumOf(v) # 0
        keys == {k \in {"net_match", "vat_match", "gross_match"} :
                    \/ k = "net_match" /\ given(self.expected_net_total)
                    \/ k = "vat_match" /\ given(self.expected_vat_total)
                    \/ k = "gross_match" /\ given(self.expected_gross_total)}
    IN  [k \in keys |->
            CASE k = "net_match" ->
                   Abs(total_net(self) - NumOf(self.expected_net_total)) <= tolerance
              [] k = "vat_match" ->
                   Abs(total_vat(self) - NumOf(self.expected_vat_total)) <= tolerance
              [] k = "gross_match" ->
                   Abs(total_gross(self) - NumOf(self.expected_gross_total)) <= tolerance]

\* InvoiceFinancials.validate_totals(tolerance): the dict it returns, as a
\* function from the keys it holds to their booleans.
validate_totals(self, tolerance) ==
    LET keys == {k \in {"net_match", "vat_match", "gross_match"} :
                    \/ k = "net_match" /\ ~IsNone(self.expected_net_total)
                    \/ k = "vat_match" /\ ~IsNone(self.expected_vat_total)
                    \/ k = "gross_match" /\ ~IsNone(self.expected_gross_total)}
    IN  [k \in keys |->
            CASE k = "net_match" ->
                   Abs(total_net(self) - NumOf(self.expected_net_total)) <= tolerance
              [] k = "vat_match" ->
                   Abs(total_vat(self) - NumOf(self.expected_vat_total)) <= tolerance
              [] k = "gross_match" ->
                   Abs(total_gross(self) - NumOf(self.expected_gross_total)) <= tolerance]

\* InvoiceFinancials.is_valid
is_valid(self) ==
    LET results == validate_totals(self, DefaultTolerance)
    IN  IF DOMAIN results # {} THEN \A k \in DOMAIN results : results[k] ELSE TRUE

\* f"£{x:.2f}" for a non-negative amount
FormatAmount(pence) ==
    <<"£">> \o Decimal(pence \div 100) \o <<".">> \o Pad(pence % 100, 2)

(***************************************************************************)
(* InvoiceMetadata.generate_standard_filename                              *)
(***************************************************************************)
Dash == <<" ", "-", " ">>
UnknownDate == <<"u", "n", "k", "n", "o", "w", "n", "-", "d", "a", "t", "e">>
UnknownMFC == <<"U", "n", "k", "n", "o", "w", "n", "M", "F", "C">>
UnknownInvoice == <<"U", "n", "k", "n", "o", "w", "n", "I", "n", "v", "o", "i", "c", "e">>

\* A call's outcome: a returned value, or an exception reaching the caller.
Returned(v) == [raised |-> FALSE, val |-> v]
Raised == [raised |-> TRUE, val |-> None]

\* The date part taken from the canonical invoice_date first.
DatePartFromCanonical(self) ==
    LET dt == Strptime(self.invoice_date, Formats[1])
    IN  IF dt.ok THEN FormatFileDate(dt.val)
        ELSE IF self.original_invoice_date.type = "datetime"
        THEN FormatFileDate(self.original_invoice_date)
        ELSE UnknownDate

\* The date part of the filename (lines 119-127).
DatePart(self) ==
    IF self.original_invoice_date.type = "datetime"
    THEN FormatFileDate(self.original_invoice_date)
    ELSE LET dt == Strptime(self.invoice_date, Formats[1])
         IN  IF dt.ok THEN FormatFileDate(dt.val) ELSE UnknownDate

\* The PO reference appended whatever it starts with.
PoPartAlways(self) == Dash \o self.po_reference.val

PoPart(self) ==
    IF StartsWith(self.po_reference.val, GUK) THEN Dash \o self.po_reference.val ELSE <<>>

generate_standard_filename(self, mfc, financials) ==
    LET date_part == DatePart(self)
        vendor_part == short_vendor_name
        mfc_part == IF Truthy(mfc.friendly_mfc_name) THEN mfc.friendly_mfc_name.val
                    ELSE UnknownMFC
        invoice_part == IF Truthy(self.invoice_no) THEN self.invoice_no.val
                        ELSE UnknownInvoice
        amount_part == FormatAmount(total_gross(financials))
    IN  IF self.po_reference.type # "str"
        THEN Raised   \* AttributeError: None has no startswith (line 135)
        ELSE Returned(Str(date_part \o Dash \o vendor_part \o Dash \o mfc_part \o Dash
                          \o invoice_part \o PoPart(self) \o Dash \o amount_part))

(***************************************************************************)
(* check_existing_filename                                                 *)
(***************************************************************************)
PdfSuffix == <<".", "p", "d", "f">>
DuplicatePrefix == <<"D", "u", "p", "l", "i", "c", "a", "t", "e">>

\* f"{prefix} - {base_filename}" and f"{prefix} ({counter}) - {base_filename}"
PrefixedName(prefix, base_filename) == prefix \o Dash \o base_filename
NumberedName(prefix, counter, base_filename) ==
    prefix \o <<" ", "(">> \o Decimal(counter) \o <<")">> \o Dash \o base_filename

\* (folder / filename).exists(); a folder is the set of the names in it.
Exists(folder, filename) == filename \in folder

\* An `if` in place of the `while`: one look at the working folder, and the
\* next name taken unseen.
IfExists(filename, counter, checks, base_filename, current_folder) ==
    IF Exists(current_folder, filename)
    THEN [filename |-> NumberedName(DuplicatePrefix, counter, base_filename),
          counter |-> counter + 1, checks |-> checks + 1]
    ELSE [filename |-> filename, counter |-> counter, checks |-> checks + 1]

\* The while loop of lines 300-303, entered with (filename, counter): the name
\* and the counter it ends with and the number of exists() calls it made.
RECURSIVE WhileExists(_, _, _, _, _)
WhileExists(filename, counter, checks, base_filename, current_folder) ==
    IF Exists(current_folder, filename)
    THEN WhileExists(NumberedName(DuplicatePrefix, counter, base_filename), counter + 1,
                     checks + 1, base_filename, current_folder)
    ELSE [filename |-> filename, counter |-> counter, checks |-> checks + 1]

\* The same call without the numbering loop: the prefixed name is returned
\* without a look at the working folder.
CheckWithoutNumbering(metadata, financials, matched_mfc, destination_folder, current_folder) ==
    LET base_filename ==
            generate_standard_filename(metadata, matched_mfc, financials).val.val \o PdfSuffix
    IN  IF Exists(destination_folder, base_filename)
        THEN [filename |-> PrefixedName(DuplicatePrefix, base_filename),
              is_duplicate |-> TRUE, checks |-> 1]
        ELSE [filename |-> base_filename, is_duplicate |-> FALSE, checks |-> 0]

\* The same call with the collision looked for in the working folder.
CheckInWorkingFolder(metadata, financials, matched_mfc, destination_folder, current_folder) ==
    LET base_filename ==
            generate_standard_filename(metadata, matched_mfc, financials).val.val \o PdfSuffix
    IN  IF Exists(current_folder, base_filename)
        THEN LET end == WhileExists(PrefixedName(DuplicatePrefix, base_filename), 2, 0,
                                    base_filename, current_folder)
             IN  [filename |-> end.filename, is_duplicate |-> TRUE, checks |-> end.checks]
        ELSE [filename |-> base_filename, is_duplicate |-> FALSE, checks |-> 0]

\* check_existing_filename(metadata, financials, matched_mfc, destination_folder,
\* current_folder) for a metadata whose filename can be generated: the tuple
\* it returns, and the number of exists() calls its loop made.
check_existing_filename(metadata, financials, matched_mfc, destination_folder, current_folder) ==
    LET base_filename ==
            generate_standard_filename(metadata, matched_mfc, financials).val.val \o PdfSuffix
    IN  IF Exists(destination_folder, base_filename)
        THEN LET end == WhileExists(PrefixedName(DuplicatePrefix, base_filename), 2, 0,
                                    base_filename, current_folder)
             IN  [filename |-> end.filename, is_duplicate |-> TRUE, checks |-> end.checks]
        ELSE [filename |-> base_filename, is_duplicate |-> FALSE, checks |-> 0]

(***************************************************************************)
(* extract_field, for regular expressions of the forms                     *)
(*   pre post      pre(body)post      pre(body)?post                       *)
(* where pre, body and post are literal characters                         *)
(***************************************************************************)
IsSpace(c) == c \in {" ", "\t", "\n"}

\* str.strip()
RECURSIVE Strip(_)
Strip(s) ==
    IF s = <<>> THEN s
    ELSE IF IsSpace(Head(s)) THEN Strip(Tail(s))
    ELSE IF IsSpace(s[Len(s)]) THEN Strip(SubSeq(s, 1, Len(s) - 1))
    ELSE s

IndexOf(s, c) == IF \E i \in 1..Len(s) : s[i] = c
                 THEN CHOOSE i \in 1..Len(s) : s[i] = c /\ \A j \in 1..(i - 1) : s[j] # c
                 ELSE 0

\* re.compile(pattern): [ok, pre, group, body, post]; ok is FALSE when the
\* parentheses do not pair up (re.error).  group is "none", "plain" or
\* "optional".
Compile(pattern) ==
    LET open == IndexOf(pattern, "(")
        close == IndexOf(pattern, ")")
        bad == [ok |-> FALSE, pre |-> <<>>, group |-> "none", body |-> <<>>, post |-> <<>>]
    IN  IF open = 0 /\ close = 0
        THEN [ok |-> TRUE, pre |-> pattern, group |-> "none", body |-> <<>>, post |-> <<>>]
        ELSE IF open = 0 \/ close < open THEN bad
        ELSE LET rest == SubSeq(pattern, close + 1, Len(pattern))
                 optional == rest # <<>> /\ Head(rest) = "?"
             IN  [ok |-> TRUE,
                  pre |-> SubSeq(pattern, 1, open - 1),
                  group |-> IF optional THEN "optional" ELSE "plain",
                  body |-> SubSeq(pattern, open + 1, close - 1),
                  post |-> IF optional THEN Tail(rest) ELSE rest]

\* Whether the literal lit matches text at position i, ignoring case.
LiteralAt(text, i, lit) ==
    /\ i + Len(lit) - 1 <= Len(text)
    /\ Lower(SubSeq(text, i, i + Len(lit) - 1)) = Lower(lit)

\* The match the regex makes at position i: [found, group1, took]; took says
\* whether group 1 took part.  An optional group is tried first (greedy).
MatchAt(re, text, i) ==
    LET withGroup == LiteralAt(text, i, re.pre \o re.body \o re.post)
        without == LiteralAt(text, i, re.pre \o re.post)
        captured == SubSeq(text, i + Len(re.pre), i + Len(re.pre) + Len(re.body) - 1)
    IN  CASE re.group = "none" -> [found |-> without, group1 |-> <<>>, took |-> FALSE]
          [] re.group = "plain" ->
               IF withGroup THEN [found |-> TRUE, group1 |-> captured, took |-> TRUE]
               ELSE [found |-> FALSE, group1 |-> <<>>, took |-> FALSE]
          [] re.group = "optional" ->
               IF withGroup THEN [found |-> TRUE, group1 |-> captured, took |-> TRUE]
               ELSE [found |-> without, group1 |-> <<>>, took |-> FALSE]

\* re.search(pattern, text, flags=re.IGNORECASE): the leftmost match.
Search(re, text) ==
    IF \E i \in 1..(Len(text) + 1) : MatchAt(re, text, i).found
    THEN MatchAt(re, text,
                 CHOOSE i \in 1..(Len(text) + 1) :
                     /\ MatchAt(re, text, i).found
                     /\ \A j \in 1..(i - 1) : ~MatchAt(re, text, j).found)
    ELSE [found |-> FALSE, group1 |-> <<>>, took |-> FALSE]

\* A pattern table: a dict of field name -> regex, or None.
NoTable == [supplied |-> FALSE, keys |-> {}, regex |-> <<>>]
Table(keys, regex) == [supplied |-> TRUE, keys |-> keys, regex |-> regex]

\* An exception reaching the caller, by its class.
RaisedError(class) == [raised |-> TRUE, error |-> class, val |-> None]
ReturnedValue(v) == [raised |-> FALSE, error |-> "", val |-> v]

\* extract_field(text, field_pattern, patterns)
extract_field(text, field_pattern, patterns) ==
    LET pattern == IF patterns.supplied /\ patterns.keys # {} /\ field_pattern \in patterns.keys
                   THEN patterns.regex
                   ELSE field_pattern
        re == Compile(pattern)
        match == Search(re, text)
    IN  IF ~re.ok THEN RaisedError("re.error")
        ELSE IF ~match.found THEN ReturnedValue(None)
        ELSE IF re.group = "none" THEN RaisedError("IndexError")       \* no such group
        ELSE IF ~match.took THEN RaisedError("AttributeError")         \* None.strip()
        ELSE ReturnedValue(Str(Strip(match.group1)))

(***************************************************************************)
(* clean_currency                                                          *)
(***************************************************************************)
MaxCurrencyLen == 4

RECURSIVE Pow10(_)
Pow10(n) == IF n = 0 THEN 1 ELSE 10 * Pow10(n - 1)

\* A float is kept as an integer count of units of 10^-MaxCurrencyLen, which
\* holds every decimal an input string of the model can write.
Unit == Pow10(MaxCurrencyLen)
Float(n) == [type |-> "float", val |-> <<n>>]

\* str.replace(ch, "")
RECURSIVE Remove(_, _)
Remove(s, ch) ==
    IF s = <<>> THEN s
    ELSE IF Head(s) = ch THEN Remove(Tail(s), ch)
    ELSE <<Head(s)>> \o Remove(Tail(s), ch)

\* float(s) for s made of digits, ".", spaces and other characters: the value
\* in units, or ValueError.  float() itself ignores surrounding whitespace.
ParseFloat(s) ==
    LET t == Strip(s)
        dot == IndexOf(t, ".")
        whole == IF dot = 0 THEN t ELSE SubSeq(t, 1, dot - 1)
        frac == IF dot = 0 THEN <<>> ELSE SubSeq(t, dot + 1, Len(t))
    IN  IF AllDigits(whole) /\ AllDigits(frac) /\ Len(whole) + Len(frac) > 0
        THEN [ok |-> TRUE,
              val |-> NumVal(whole) * Unit + NumVal(frac) * Pow10(MaxCurrencyLen - Len(frac))]
        ELSE [ok |-> FALSE, val |-> 0]

\* A Python int is unbounded: [type |-> "int", val |-> <<m, e>>] is m * 10^e.
PyInt(m, e) == [type |-> "int", val |-> <<m, e>>]

\* float(value) for an int or a float.  A double holds no magnitude of 10^309
\* or more: float() of such an int raises OverflowError.
FloatOfNumber(value) ==
    IF value.type = "float" THEN ReturnedValue(value)
    ELSE IF value.val[1] # 0 /\ value.val[2] >= 309 THEN RaisedError("OverflowError")
    ELSE ReturnedValue(Float(value.val[1] * Pow10(value.val[2]) * Unit))

\* clean_currency(value); floats are given and returned in units.
clean_currency(value) ==
    IF value.type \in {"int", "float"} THEN FloatOfNumber(value)
    ELSE IF value.type # "str" \/ value.val = <<>> THEN ReturnedValue(Float(0))
    ELSE LET parsed == ParseFloat(Strip(Remove(Remove(value.val, "£"), ",")))
         IN  IF parsed.ok THEN ReturnedValue(Float(parsed.val))
             ELSE ReturnedValue(Float(0))    \* except ValueError

(***************************************************************************)
(* Inputs                                                                  *)
(***************************************************************************)
MaxTicks == 1

Years == 2024..2025
Months == 1..12
DaysOfMonth == {1, 21, 22, 23, 24, 25, 26, 27, 28, 29, 30, 31}

\* How a caller may write the calendar date y-m-d; the date need not exist
\* (the 31st of a 30-day month is written like any other).
Styles == {"iso", "iso-short", "dmy", "dmy-short", "abbr", "abbr-lower", "full"}
RenderDate(style, y, m, d) ==
    CASE style = "iso" -> Pad(y, 4) \o <<"-">> \o Pad(m, 2) \o <<"-">> \o Pad(d, 2)
      [] style = "iso-short" -> Pad(y, 4) \o <<"-">> \o Decimal(m) \o <<"-">> \o Decimal(d)
      [] style = "dmy" -> Pad(d, 2) \o <<"/">> \o Pad(m, 2) \o <<"/">> \o Pad(y, 4)
      [] style = "dmy-short" -> Decimal(d) \o <<"/">> \o Decimal(m) \o <<"/">> \o Pad(y, 4)
      [] style = "abbr" -> Pad(d, 2) \o <<"-">> \o MonthAbbr[m] \o <<"-">> \o Pad(y, 4)
      [] style = "abbr-lower" ->
           Pad(d, 2) \o <<"-">> \o Lower(MonthAbbr[m]) \o <<"-">> \o Pad(y, 4)
      [] style = "full" -> Decimal(d) \o <<"-">> \o MonthFull[m] \o <<"-">> \o Pad(y, 4)
      \* not accepted by any format:
      [] style = "dmy-dash" -> Pad(d, 2) \o <<"-">> \o Pad(m, 2) \o <<"-">> \o Pad(y, 4)
      [] style = "ymd-slash" -> Pad(y, 4) \o <<"/">> \o Pad(m, 2) \o <<"/">> \o Pad(d, 2)
      [] style = "two-digit-year" ->
           Pad(d, 2) \o <<"/">> \o Pad(m, 2) \o <<"/">> \o Pad(y % 100, 2)
      [] style = "trailing-space" ->
           Pad(y, 4) \o <<"-">> \o Pad(m, 2) \o <<"-">> \o Pad(d, 2) \o <<" ">>
      [] style = "dotted" -> Pad(d, 2) \o <<".">> \o Pad(m, 2) \o <<".">> \o Pad(y, 4)
      [] style = "empty" -> <<>>
      [] style = "text" -> <<"n", "/", "a">>
BadStyles == {"dmy-dash", "ymd-slash", "two-digit-year", "trailing-space", "dotted",
              "empty", "text"}

Written(style, y, m, d) == [style |-> style, y |-> y, m |-> m, d |-> d]

PoReferences == {None, Str(<<>>), Str(<<"1", "2">>), Str(<<"G", "U">>),
                 Str(<<"G", "U", "K", "9">>)}
InvoiceNumbers == {None, Str(<<>>), Str(<<"A", "7">>)}
FriendlyNames == {None, Str(<<>>), Str(<<"Y", "o", "r", "k">>)}
GrossAmounts == {5, 16000}

\* Constructor arguments; `written` remembers what invoice_date was written from.
CtorArgs(w, po, no) ==
    [invoice_no |-> no,
     invoice_date |-> RenderDate(w.style, w.y, w.m, w.d),
     po_reference |-> po,
     invoice_type |-> Str(<<"I">>),
     written |-> w]

\* Every accepted way of writing every date of the calendar grid, and the
\* unaccepted ways of a few; one PO reference and invoice number.
DateStudyArgs ==
    {CtorArgs(Written(st, y, m, d), Str(<<"1", "2">>), Str(<<"A", "7">>)) :
        st \in Styles, y \in Years, m \in Months, d \in DaysOfMonth}
    \cup {CtorArgs(Written(st, 2025, m, 28), Str(<<"1", "2">>), Str(<<"A", "7">>)) :
             st \in BadStyles, m \in {2, 12}}

\* ISO dates on both sides of the overdue thresholds of the months the
\* clock visits, and two unparseable dates, with every PO reference and
\* invoice number.
LifecycleDates ==
    {<<2024, 12, 28>>, <<2024, 12, 29>>, <<2024, 12, 30>>, <<2025, 1, 1>>,
     <<2025, 1, 28>>, <<2025, 1, 29>>, <<2025, 1, 30>>,
     <<2025, 2, 25>>, <<2025, 2, 26>>, <<2025, 2, 27>>, <<2025, 2, 28>>}
LifecycleArgs ==
    {CtorArgs(Written("iso", ymd[1], ymd[2], ymd[3]), po, no) :
        ymd \in LifecycleDates, po \in PoReferences, no \in InvoiceNumbers}
    \cup {CtorArgs(Written(st, 2025, 1, 28), po, no) :
             st \in {"dmy-dash", "empty"}, po \in PoReferences, no \in InvoiceNumbers}

Todays == {DateTime(2025, 2, 28), DateTime(2025, 1, 31)}

(***************************************************************************)
(* State                                                                   *)
(***************************************************************************)
VARIABLES
    args,      \* the arguments the InvoiceMetadata object was constructed from
    meta,      \* the InvoiceMetadata object's fields
    today,     \* the date datetime.today() returns
    ticks,     \* days elapsed since the start
    ret,       \* the last method call on the object: its inputs and outcome
    doc,       \* the invoice being filed: its location record and financials
    destination_folder,   \* names of the files in the destination folder
    current_folder,       \* names of the files in the working folder
    fres,      \* the last check_existing_filename call and what it returned
    returned,  \* what the calls so far returned, oldest first
    call       \* the last call of a module-level function: its inputs and outcome

metaVars == <<args, meta, today, ticks, ret>>
fileVars == <<doc, destination_folder, current_folder, fres, returned>>
vars == <<metaVars, fileVars, call>>

NoFunctionCall == [fn |-> "none"]

NoDoc == [mfc |-> None, financials |-> None, initial_folder |-> {}]
NoResult == [pc |-> "idle", filename |-> <<>>, is_duplicate |-> FALSE, checks |-> 0]
FilesIdle ==
    /\ doc = NoDoc
    /\ destination_folder = {}
    /\ current_folder = {}
    /\ fres = NoResult
    /\ returned = <<>>
    /\ call = NoFunctionCall

NoInput == [mfc |-> None, financials |-> None]
NoCall == [op |-> "none", raised |-> FALSE, val |-> None, input |-> NoInput]

Init ==
    /\ args \in LifecycleArgs
    /\ meta = InvoiceMetadata(args.invoice_no, args.invoice_date, args.po_reference,
                              args.invoice_type)
    /\ today \in Todays
    /\ ticks = 0
    /\ ret = NoCall
    /\ FilesIdle

\* metadata.adjust_invoice_date_if_overdue(); it returns None and never raises.
Adjust ==
    /\ meta' = AdjustInvoiceDateIfOverdue(meta, today)
    /\ ret' = [op |-> "adjust", raised |-> FALSE, val |-> None,
               input |-> [self |-> meta, today |-> today]]
    /\ UNCHANGED <<args, today, ticks, fileVars, call>>

\* metadata.generate_standard_filename(mfc, financials)
GenerateFilename ==
    \E friendly \in FriendlyNames, gross \in GrossAmounts :
        LET mfc == [friendly_mfc_name |-> friendly]
            financials == [net_0 |-> gross, vat_0 |-> 0, net_5 |-> 0, vat_5 |-> 0,
                           net_20 |-> 0, vat_20 |-> 0,
                           expected_net_total |-> None, expected_vat_total |-> None,
                           expected_gross_total |-> None]
            out == generate_standard_filename(meta, mfc, financials)
        IN  /\ ret' = [op |-> "filename", raised |-> out.raised, val |-> out.val,
                        input |-> [mfc |-> mfc, financials |-> financials]]
            /\ UNCHANGED <<args, meta, today, ticks, fileVars, call>>

\* Midnight passes.
Tick ==
    /\ ticks < MaxTicks
    /\ ticks' = ticks + 1
    /\ today' = AddDays(today, 1)
    /\ UNCHANGED <<args, meta, ret, fileVars, call>>

Next == Adjust \/ GenerateFilename \/ Tick

Spec == Init /\ [][Next]_vars

(***************************************************************************)
(* Construction on its own, over every way of writing a date               *)
(***************************************************************************)
\* No object exists before the constructor has run.
Unconstructed ==
    [invoice_no |-> None, po_reference |-> None, invoice_type |-> None,
     original_invoice_date |-> None, invoice_date |-> <<>>, due_date |-> <<>>,
     po_month |-> <<>>]

InitCtor ==
    /\ args \in DateStudyArgs
    /\ meta = Unconstructed
    /\ today \in {DateTime(2025, 2, 28)}
    /\ ticks = 0
    /\ ret = NoCall
    /\ FilesIdle

\* InvoiceMetadata(invoice_no, invoice_date, po_reference, invoice_type)
Construct ==
    /\ ret.op = "none"
    /\ meta' = InvoiceMetadata(args.invoice_no, args.invoice_date, args.po_reference,
                              args.invoice_type)
    /\ ret' = [op |-> "init", raised |-> FALSE, val |-> None, input |-> NoInput]
    /\ UNCHANGED <<args, today, ticks, fileVars, call>>

NextCtor == Construct

SpecCtor == InitCtor /\ [][NextCtor]_vars

(***************************************************************************)
(* Filing: check_existing_filename against the two folders                 *)
(***************************************************************************)
MaxCalls == 3
MaxPlaced == 3

\* The invoices filed: one with a GUK reference, one without.
FilingArgs ==
    {CtorArgs(Written("iso", 2025, 1, 28), po, Str(<<"A", "7">>)) :
        po \in {Str(<<"1", "2">>), Str(<<"G", "U", "K", "9">>)}}
FilingDoc ==
    [mfc |-> [friendly_mfc_name |-> Str(<<"Y", "o", "r", "k">>)],
     financials |-> [net_0 |-> 16000, vat_0 |-> 0, net_5 |-> 0, vat_5 |-> 0,
                     net_20 |-> 0, vat_20 |-> 0,
                     expected_net_total |-> None, expected_vat_total |-> None,
                     expected_gross_total |-> None]]

\* The base filename of the invoice being filed.
BaseFilename == generate_standard_filename(meta, doc.mfc, doc.financials).val.val \o PdfSuffix

\* Files that may lie in the working folder beforehand: the invoice under its
\* base name, earlier duplicates of it, and an unrelated file.
PlacedNames(base) ==
    {base, PrefixedName(DuplicatePrefix, base), <<"x", ".", "p", "d", "f">>}
    \cup {NumberedName(DuplicatePrefix, k, base) : k \in 2..MaxPlaced}

InitFile ==
    /\ args \in FilingArgs
    /\ meta = InvoiceMetadata(args.invoice_no, args.invoice_date, args.po_reference,
                              args.invoice_type)
    /\ today = DateTime(2025, 2, 28)
    /\ ticks = 0
    /\ ret = NoCall
    /\ \E placed \in SUBSET PlacedNames(
              generate_standard_filename(meta, FilingDoc.mfc, FilingDoc.financials).val.val
                  \o PdfSuffix) :
          /\ current_folder = placed
          /\ doc = [mfc |-> FilingDoc.mfc, financials |-> FilingDoc.financials,
                    initial_folder |-> placed]
    /\ destination_folder \in {{}, {BaseFilename}}
    /\ fres = NoResult
    /\ returned = <<>>
    /\ call = NoFunctionCall

\* filename, is_duplicate = check_existing_filename(metadata, financials,
\*     matched_mfc, destination_folder, current_folder)
CheckExistingFilename ==
    /\ fres.pc = "idle"
    /\ Len(returned) < MaxCalls
    /\ LET out == check_existing_filename(meta, doc.financials, doc.mfc,
                                          destination_folder, current_folder)
       IN  /\ fres' = [pc |-> "named", filename |-> out.filename,
                       is_duplicate |-> out.is_duplicate, checks |-> out.checks]
           /\ returned' = Append(returned, [filename |-> out.filename,
                                            is_duplicate |-> out.is_duplicate])
    /\ UNCHANGED <<metaVars, call, doc, destination_folder, current_folder>>

\* The caller writes the invoice into the working folder under the name it
\* was given.
SaveAs ==
    /\ fres.pc = "named"
    /\ current_folder' = current_folder \cup {fres.filename}
    /\ fres' = [fres EXCEPT !.pc = "idle"]
    /\ UNCHANGED <<metaVars, call, doc, destination_folder, returned>>

\* An earlier copy of the invoice reaches the destination folder.
FileProcessed ==
    /\ fres.pc = "idle"
    /\ ~Exists(destination_folder, BaseFilename)
    /\ destination_folder' = destination_folder \cup {BaseFilename}
    /\ UNCHANGED <<metaVars, call, doc, current_folder, fres, returned>>

NextFile == CheckExistingFilename \/ SaveAs \/ FileProcessed

SpecFile == InitFile /\ [][NextFile]_vars


(***************************************************************************)
(* The module-level functions, each called on inputs of a bounded set      *)
(***************************************************************************)
MaxTextLen == 3

SeqsUpTo(S, n) == UNION {[1..k -> S] : k \in 0..n}

\* No invoice is under way while the functions are exercised; a function
\* keeps nothing from one call to the next, so a behaviour makes one call.
NoInvoice ==
    /\ args = CtorArgs(Written("empty", 2025, 1, 28), None, None)
    /\ meta = Unconstructed
    /\ today = DateTime(2025, 2, 28)
    /\ ticks = 0
    /\ ret = NoCall

InitCall == NoInvoice /\ FilesIdle

\* --- extract_field ---
TextChars == {"a", "B", " "}
Texts == SeqsUpTo(TextChars, MaxTextLen)

\* The regex source for pre(body)post, pre(body)?post or prepost.
RegexSource(pre, group, body, post) ==
    CASE group = "none" -> pre \o post
      [] group = "plain" -> pre \o <<"(">> \o body \o <<")">> \o post
      [] group = "optional" -> pre \o <<"(">> \o body \o <<")", "?">> \o post
Regexes ==
    {RegexSource(pre, group, body, post) :
        pre \in {<<>>, <<"a">>}, group \in {"none", "plain", "optional"},
        body \in {<<"b">>, <<" ", "b">>, <<"b", " ">>}, post \in {<<>>, <<"a">>}}
FieldKey == <<"k">>
FieldPatterns == Regexes \cup {FieldKey, <<"(">>, <<"a", ")">>}
Tables == {NoTable, Table({}, <<>>)}
              \cup {Table({FieldKey}, r) : r \in {<<"a", "(", "b", ")">>, <<"b">>}}

ExtractField ==
    \E text \in Texts, field_pattern \in FieldPatterns, patterns \in Tables :
        /\ call.fn = "none"
        /\ call' = [fn |-> "extract_field",
                    input |-> [text |-> text, field_pattern |-> field_pattern,
                               patterns |-> patterns],
                    out |-> extract_field(text, field_pattern, patterns)]
        /\ UNCHANGED <<metaVars, fileVars>>

NextExtract == ExtractField

SpecExtract == InitCall /\ [][NextExtract]_vars

\* --- clean_currency ---
CurrencyChars == {"£", ",", " ", ".", "1", "5", "x"}
CurrencyStrings == {Str(s) : s \in SeqsUpTo(CurrencyChars, MaxCurrencyLen)}
\* ints, among them zero, a negative amount and 10^400, and floats (in units)
CurrencyInts == {PyInt(0 - 7, 0), PyInt(0, 0), PyInt(1234, 0), PyInt(16, 1), PyInt(1, 400)}
CurrencyFloats == {Float(n) : n \in {0, 5, 12345678}}
\* None and values that are neither numbers nor strings
CurrencyOthers == {None, [type |-> "list", val |-> <<>>], [type |-> "bytes", val |-> <<>>]}

CleanCurrency(inputs) ==
    \E value \in inputs :
        /\ call.fn = "none"
        /\ call' = [fn |-> "clean_currency", input |-> value, out |-> clean_currency(value)]
        /\ UNCHANGED <<metaVars, fileVars>>

NextCurrency ==
    \/ CleanCurrency(CurrencyStrings)
    \/ CleanCurrency(CurrencyInts)
    \/ CleanCurrency(CurrencyFloats)
    \/ CleanCurrency(CurrencyOthers)

SpecCurrency == InitCall /\ [][NextCurrency]_vars

\* --- InvoiceFinancials.validate_totals and is_valid ---
\* An expected total: not supplied, zero, or within two pence of the total.
ExpectedAround(total) == {None, Num(0)} \cup {Num(total + k) : k \in (0 - 2)..2}
Tolerances == {0, 1, 2}
BandAmounts ==
    {[net_0 |-> n0, vat_0 |-> 0, net_5 |-> 0, vat_5 |-> v5, net_20 |-> 5000, vat_20 |-> 1000] :
        n0 \in {0, 10000}, v5 \in {0, 25}}

ValidateTotals ==
    \E bands \in BandAmounts, tolerance \in Tolerances :
        \E en \in ExpectedAround(bands.net_0 + 5000),
           ev \in ExpectedAround(bands.vat_5 + 1000),
           eg \in ExpectedAround(bands.net_0 + bands.vat_5 + 6000) :
            LET self == [net_0 |-> bands.net_0, vat_0 |-> bands.vat_0,
                         net_5 |-> bands.net_5, vat_5 |-> bands.vat_5,
                         net_20 |-> bands.net_20, vat_20 |-> bands.vat_20,
                         expected_net_total |-> en, expected_vat_total |-> ev,
                         expected_gross_total |-> eg]
            IN  /\ call.fn = "none"
                /\ call' = [fn |-> "validate_totals",
                            input |-> [self |-> self, tolerance |-> tolerance],
                            out |-> validate_totals(self, tolerance),
                            is_valid |-> is_valid(self)]
                /\ UNCHANGED <<metaVars, fileVars>>

NextFinancials == ValidateTotals

SpecFinancials == InitCall /\ [][NextFinancials]_vars


(***************************************************************************)
(* Properties of InvoiceMetadata                                           *)
(***************************************************************************)
\* The canonical invoice_date as a date, when it is one.
CanonicalDate(m) == Strptime(m.invoice_date, Formats[1])
FirstOfMonth(now) == DateTime(Year(now), Month(now), 1)

\* invoice_date is strictly earlier than (first of the current month - 3 days).
Overdue(m, now) ==
    /\ CanonicalDate(m).ok
    /\ ToOrdinal(CanonicalDate(m).val) < ToOrdinal(FirstOfMonth(now)) - 3

\* "MM/YY" of a date, digit by digit.
MonthTag(dt) ==
    << DigitChars[(Month(dt) \div 10) + 1], DigitChars[(Month(dt) % 10) + 1], "/",
       DigitChars[((Year(dt) % 100) \div 10) + 1], DigitChars[(Year(dt) % 10) + 1] >>

\* C3: a call of adjust_invoice_date_if_overdue on an overdue invoice (whose
\* po_reference is a string, as the data model types it) leaves invoice_date
\* the first day of the current month in YYYY-MM-DD form, po_month the MM/YY
\* of the invoice date before the call, and po_reference "<po_month> invoice",
\* followed by a newline and the old reference when that started with "GUK".
C3_OverdueAdjustment ==
    (/\ ret.op = "adjust"
     /\ Overdue(ret.input.self, ret.input.today)
     /\ ret.input.self.po_reference.type = "str") =>
        LET tag == MonthTag(CanonicalDate(ret.input.self).val)
            old == ret.input.self.po_reference.val
        IN  /\ meta.invoice_date = FormatISO(FirstOfMonth(ret.input.today))
            /\ meta.po_month = tag
            /\ meta.po_reference =
                 IF Len(old) >= 3 /\ old[1] = "G" /\ old[2] = "U" /\ old[3] = "K"
                 THEN Str(tag \o InvoiceSuffix \o <<"\n">> \o old)
                 ELSE Str(tag \o InvoiceSuffix)

\* An invoice of 28 January 2025 with PO "GUK9", adjusted in February 2025.
C3_Witness ==
    /\ ret.op = "adjust"
    /\ args.invoice_date = <<"2", "0", "2", "5", "-", "0", "1", "-", "2", "8">>
    /\ meta.invoice_date = <<"2", "0", "2", "5", "-", "0", "2", "-", "0", "1">>
    /\ meta.po_month = <<"0", "1", "/", "2", "5">>
    /\ meta.po_reference =
         Str(<<"0", "1", "/", "2", "5">> \o InvoiceSuffix \o <<"\n", "G", "U", "K", "9">>)

\* C4: whenever the date parsed at construction, due_date is invoice_date plus
\* 7 days, after construction and after any number of adjustments.
C4_DueDateFollowsInvoiceDate ==
    meta.original_invoice_date.type = "datetime" =>
        /\ CanonicalDate(meta).ok
        /\ meta.due_date = FormatISO(FromOrdinal(ToOrdinal(CanonicalDate(meta).val) + 7))

\* y-m-d plus seven days, carried by hand over the month and the year end.
SevenDaysLater(y, m, d) ==
    IF d + 7 <= DaysInMonth(y, m) THEN DateTime(y, m, d + 7)
    ELSE IF m < 12 THEN DateTime(y, m + 1, d + 7 - DaysInMonth(y, m))
    ELSE DateTime(y + 1, 1, d + 7 - 31)

\* C5: constructed from an existing date written in an accepted format, the
\* object holds that date in ISO form as invoice_date, the date seven days
\* later in ISO form as due_date, its YYYY-MM as po_month and the date itself
\* as original_invoice_date.
C5_ConstructionParsesAcceptedFormats ==
    (/\ ret.op = "init"
     /\ args.written.style \in Styles
     /\ ValidDate(args.written.y, args.written.m, args.written.d)) =>
        LET w == args.written
            date == DateTime(w.y, w.m, w.d)
        IN  /\ meta.original_invoice_date = date
            /\ meta.invoice_date = FormatISO(date)
            /\ meta.due_date = FormatISO(SevenDaysLater(w.y, w.m, w.d))
            /\ meta.po_month = SubSeq(FormatISO(date), 1, 7)

\* "25-December-2024" gives 2024-12-25, due on 2025-01-01.
C5_Witness ==
    /\ ret.op = "init"
    /\ args.written = Written("full", 2024, 12, 25)
    /\ meta.invoice_date = <<"2", "0", "2", "4", "-", "1", "2", "-", "2", "5">>
    /\ meta.due_date = <<"2", "0", "2", "5", "-", "0", "1", "-", "0", "1">>
    /\ meta.po_month = <<"2", "0", "2", "4", "-", "1", "2">>

\* C6: constructed from a date string no accepted format matches (an
\* unaccepted layout, or a day that does not exist), the object is degraded:
\* invoice_date, due_date and po_month are "UNKNOWN", original_invoice_date is
\* None, and the other fields hold the arguments; no exception is raised.
C6_ConstructionDegradesOnBadDate ==
    (/\ ret.op = "init"
     /\ \/ args.written.style \in BadStyles
        \/ ~ValidDate(args.written.y, args.written.m, args.written.d)) =>
        /\ ~ret.raised
        /\ meta.invoice_date = UNKNOWN
        /\ meta.due_date = UNKNOWN
        /\ meta.po_month = UNKNOWN
        /\ IsNone(meta.original_invoice_date)
        /\ meta.invoice_no = args.invoice_no
        /\ meta.po_reference = args.po_reference
        /\ meta.invoice_type = args.invoice_type

\* "31/02/2025" names no day.
C6_Witness ==
    /\ ret.op = "init"
    /\ args.invoice_date = <<"3", "1", "/", "0", "2", "/", "2", "0", "2", "5">>
    /\ meta.invoice_date = UNKNOWN
    /\ IsNone(meta.original_invoice_date)

\* C10: generate_standard_filename returns
\* "{date} - Blakemore - {friendly name or UnknownMFC} - {invoice_no or
\* UnknownInvoice}{po_suffix} - £{pounds}.{pence}", where po_suffix is
\* " - {po_reference}" exactly when the current po_reference starts with "GUK".
C10_StandardFilename ==
    (ret.op = "filename" /\ meta.po_reference.type = "str") =>
        LET po == meta.po_reference.val
            friendly == ret.input.mfc.friendly_mfc_name
            gross == total_gross(ret.input.financials)
            suffix == IF Len(po) >= 3 /\ po[1] = "G" /\ po[2] = "U" /\ po[3] = "K"
                      THEN <<" ", "-", " ">> \o po ELSE <<>>
        IN  /\ ~ret.raised
            /\ ret.val =
                 Str(DatePart(meta) \o <<" ", "-", " ">> \o short_vendor_name
                     \o <<" ", "-", " ">>
                     \o (IF friendly \in {None, Str(<<>>)} THEN UnknownMFC ELSE friendly.val)
                     \o <<" ", "-", " ">>
                     \o (IF meta.invoice_no \in {None, Str(<<>>)} THEN UnknownInvoice
                         ELSE meta.invoice_no.val)
                     \o suffix \o <<" ", "-", " ">>
                     \o <<"£">> \o Decimal(gross \div 100) \o <<".">>
                     \o <<DigitChars[((gross % 100) \div 10) + 1], DigitChars[(gross % 10) + 1]>>)

\* "25.01.28 - Blakemore - York - A7 - GUK9 - £160.00"
C10_Witness ==
    /\ ret.op = "filename"
    /\ ret.val = Str(<<"2", "5", ".", "0", "1", ".", "2", "8">> \o Dash \o short_vendor_name
                     \o Dash \o <<"Y", "o", "r", "k">> \o Dash \o <<"A", "7">> \o Dash
                     \o <<"G", "U", "K", "9">> \o Dash
                     \o <<"£", "1", "6", "0", ".", "0", "0">>)

(***************************************************************************)
(* Properties of check_existing_filename                                   *)
(***************************************************************************)
\* "Duplicate - {base}" for k = 1 and "Duplicate (k) - {base}" for k >= 2.
DuplicateLabel(k, base) ==
    IF k = 1
    THEN <<"D", "u", "p", "l", "i", "c", "a", "t", "e", " ", "-", " ">> \o base
    ELSE <<"D", "u", "p", "l", "i", "c", "a", "t", "e", " ", "(">> \o Decimal(k)
             \o <<")", " ", "-", " ">> \o base

\* The smallest k >= 1 whose label is not in the folder.
FirstFree(folder, base) ==
    CHOOSE k \in 1..(Cardinality(folder) + 1) :
        /\ DuplicateLabel(k, base) \notin folder
        /\ \A j \in 1..(k - 1) : DuplicateLabel(j, base) \in folder

\* C1: when the base name exists in the destination folder the call returns
\* flag True and "Duplicate - {base}" if the working folder lacks it, else
\* "Duplicate (k) - {base}" for the least k >= 2 the working folder lacks; and
\* when every returned name is saved into the working folder, the duplicate
\* names returned carry strictly increasing numbers, none twice, and count
\* "Duplicate - ", "(2)", "(3)", ... when the folder held no duplicate before.
C1_DuplicateNaming ==
    /\ (fres.pc = "named" /\ BaseFilename \in destination_folder) =>
          /\ fres.is_duplicate
          /\ fres.filename = DuplicateLabel(FirstFree(current_folder, BaseFilename),
                                            BaseFilename)
    /\ LET dups == SelectSeq(returned, LAMBDA r : r.is_duplicate)
       IN  /\ \A i, j \in 1..Len(dups) :
                 i < j =>
                    /\ dups[i].filename # dups[j].filename
                    /\ \E ki, kj \in 1..(MaxPlaced + MaxCalls + 1) :
                          /\ ki < kj
                          /\ dups[i].filename = DuplicateLabel(ki, BaseFilename)
                          /\ dups[j].filename = DuplicateLabel(kj, BaseFilename)
           /\ (\A k \in 1..MaxPlaced :
                   DuplicateLabel(k, BaseFilename) \notin doc.initial_folder) =>
                 \A i \in 1..Len(dups) :
                    dups[i].filename = DuplicateLabel(i, BaseFilename)

\* Three filings of the same invoice returned the plain, (2) and (3) names.
C1_Witness ==
    /\ Len(returned) = 3
    /\ returned[1] = [filename |-> DuplicateLabel(1, BaseFilename), is_duplicate |-> TRUE]
    /\ returned[2] = [filename |-> DuplicateLabel(2, BaseFilename), is_duplicate |-> TRUE]
    /\ returned[3] = [filename |-> DuplicateLabel(3, BaseFilename), is_duplicate |-> TRUE]

\* C2: when the base name is not in the destination folder the call returns
\* (base, False), whatever the working folder holds.
C2_NoDestinationCollision ==
    (fres.pc = "named" /\ BaseFilename \notin destination_folder) =>
        /\ fres.filename = BaseFilename
        /\ ~fres.is_duplicate

\* The working folder already holds the base name and a duplicate of it.
C2_Witness ==
    /\ fres.pc = "named"
    /\ destination_folder = {}
    /\ BaseFilename \in current_folder
    /\ DuplicateLabel(1, BaseFilename) \in current_folder
    /\ fres.filename = BaseFilename
    /\ ~fres.is_duplicate

(***************************************************************************)
(* Properties of the module-level functions and of InvoiceFinancials       *)
(***************************************************************************)
\* The regex a call resolves to: the table's, when a table holding the key
\* was supplied, else the key itself.
ResolvedPattern(in) ==
    IF in.patterns.supplied /\ in.field_pattern \in in.patterns.keys
    THEN in.patterns.regex ELSE in.field_pattern

\* C7: extract_field never raises; it returns the first capture group of the
\* first case-insensitive match, trimmed, or None when nothing matches, also
\* for a pattern with no capture group or whose group took no part.
C7_ExtractFieldNeverRaises ==
    call.fn = "extract_field" =>
        LET re == Compile(ResolvedPattern(call.input))
            match == Search(re, call.input.text)
        IN  /\ ~call.out.raised
            /\ (re.ok /\ ~match.found) => IsNone(call.out.val)
            /\ (re.ok /\ match.found /\ match.took) =>
                  call.out.val = Str(Strip(match.group1))

\* The input string with "£" and "," dropped and the blanks at both ends cut.
Cleaned(s) ==
    LET kept == SelectSeq(s, LAMBDA c : c \notin {"£", ","})
        inked == {i \in 1..Len(kept) : ~IsSpace(kept[i])}
    IN  IF inked = {} THEN <<>>
        ELSE SubSeq(kept, CHOOSE i \in inked : \A j \in inked : i <= j,
                          CHOOSE i \in inked : \A j \in inked : i >= j)

\* A decimal numeral: digits with at most one point and at least one digit.
IsNumeral(t) ==
    /\ \A i \in 1..Len(t) : IsDigit(t[i]) \/ t[i] = "."
    /\ Cardinality({i \in 1..Len(t) : t[i] = "."}) <= 1
    /\ \E i \in 1..Len(t) : IsDigit(t[i])

\* Its value in units: the digits read as one integer, shifted by the number
\* of digits after the point.
NumeralValue(t) ==
    LET digits == SelectSeq(t, IsDigit)
        point == IF \E i \in 1..Len(t) : t[i] = "."
                 THEN CHOOSE i \in 1..Len(t) : t[i] = "." ELSE Len(t)
    IN  NumVal(digits) * Pow10(MaxCurrencyLen - (Len(t) - point))

\* C8: clean_currency returns a number for every input and never raises: a
\* number keeps its value; None, the empty string and other non-strings give
\* 0; a string gives the number left once every "£" and "," is removed and
\* the blanks trimmed, or 0 when that is no number.
C8_CleanCurrencyTotal ==
    call.fn = "clean_currency" =>
        /\ ~call.out.raised
        /\ call.out.val.type = "float"
        /\ call.out.val.val[1] =
             CASE call.input.type = "float" -> call.input.val[1]
               [] call.input.type = "int" ->
                    call.input.val[1] * Pow10(call.input.val[2]) * Unit
               [] call.input.type = "str" ->
                    IF IsNumeral(Cleaned(call.input.val))
                    THEN NumeralValue(Cleaned(call.input.val)) ELSE 0
               [] OTHER -> 0

\* C8, for the inputs other than the ints no double can hold.
C8_CleanCurrencyWithinDoubleRange ==
    (call.fn = "clean_currency" /\ call.out.error # "OverflowError") =>
        C8_CleanCurrencyTotal

\* "£1,5" is 15.
C8_WithinRangeWitness ==
    /\ call.fn = "clean_currency"
    /\ call.input = Str(<<"£", "1", ",", "5">>)
    /\ call.out = ReturnedValue(Float(15 * Unit))

\* C9: validate_totals(tolerance) holds one boolean for each expected total
\* that was supplied and no other, each saying that the sum over the three
\* bands is within tolerance of the expected total; is_valid is their
\* conjunction at the default tolerance, True when none was supplied.
C9_ValidateTotals ==
    call.fn = "validate_totals" =>
        LET f == call.input.self
            tol == call.input.tolerance
            net == f.net_0 + f.net_5 + f.net_20
            vat == f.vat_0 + f.vat_5 + f.vat_20
            Within(total, expected, t) ==
                total - NumOf(expected) <= t /\ NumOf(expected) - total <= t
            Supplied(v) == v.type = "float"
        IN  /\ ("net_match" \in DOMAIN call.out) = Supplied(f.expected_net_total)
            /\ ("vat_match" \in DOMAIN call.out) = Supplied(f.expected_vat_total)
            /\ ("gross_match" \in DOMAIN call.out) = Supplied(f.expected_gross_total)
            /\ DOMAIN call.out \subseteq {"net_match", "vat_match", "gross_match"}
            /\ Supplied(f.expected_net_total) =>
                  call.out["net_match"] = Within(net, f.expected_net_total, tol)
            /\ Supplied(f.expected_vat_total) =>
                  call.out["vat_match"] = Within(vat, f.expected_vat_total, tol)
            /\ Supplied(f.expected_gross_total) =>
                  call.out["gross_match"] = Within(net + vat, f.expected_gross_total, tol)
            /\ call.is_valid =
                 (/\ Supplied(f.expected_net_total) =>
                        Within(net, f.expected_net_total, DefaultTolerance)
                  /\ Supplied(f.expected_vat_total) =>
                        Within(vat, f.expected_vat_total, DefaultTolerance)
                  /\ Supplied(f.expected_gross_total) =>
                        Within(net + vat, f.expected_gross_total, DefaultTolerance))

\* Net 100.00 + 50.00 and VAT 10.00 against an expected gross of 160.00 and an
\* expected VAT of 0: gross matches, VAT does not, net was not supplied.
C9_Witness ==
    /\ call.fn = "validate_totals"
    /\ call.input.tolerance = 1
    /\ total_gross(call.input.self) = 16000
    /\ call.input.self.expected_gross_total = Num(16000)
    /\ call.input.self.expected_vat_total = Num(0)
    /\ IsNone(call.input.self.expected_net_total)
    /\ DOMAIN call.out = {"gross_match", "vat_match"}
    /\ call.out["gross_match"]
    /\ ~call.out["vat_match"]
    /\ ~call.is_valid

(***************************************************************************)
(* The filename's date across the adjustment                               *)
(***************************************************************************)
\* "YY.MM.DD" of the calendar date y-m-d, digit by digit.
FileDate(y, m, d) ==
    << DigitChars[((y % 100) \div 10) + 1], DigitChars[(y % 10) + 1], ".",
       DigitChars[(m \div 10) + 1], DigitChars[(m % 10) + 1], ".",
       DigitChars[(d \div 10) + 1], DigitChars[(d % 10) + 1] >>

\* The leading date part a filename must have for the object built from args.
ExpectedDatePart ==
    IF args.written.style \in Styles
    THEN FileDate(args.written.y, args.written.m, args.written.d)
    ELSE UnknownDate

\* C11: every filename starts with the date the constructor parsed, as
\* YY.MM.DD, whether or not adjust_invoice_date_if_overdue has re-dated the
\* invoice since, and with "unknown-date" when the constructor could not parse
\* the date; a call of adjust_invoice_date_if_overdue leaves the date part as
\* it was.
C11_DatePartIsOriginalDate ==
    /\ (ret.op = "filename" /\ ~ret.raised) =>
          /\ Len(ret.val.val) >= Len(ExpectedDatePart) + 3
          /\ SubSeq(ret.val.val, 1, Len(ExpectedDatePart) + 3)
                = ExpectedDatePart \o <<" ", "-", " ">>
    /\ ret.op = "adjust" => DatePart(meta) = DatePart(ret.input.self)

\* A filename dated 25.01.28 generated after the invoice was re-dated to
\* 2025-02-01.
C11_Witness ==
    /\ ret.op = "filename"
    /\ ~ret.raised
    /\ meta.invoice_date = <<"2", "0", "2", "5", "-", "0", "2", "-", "0", "1">>
    /\ SubSeq(ret.val.val, 1, 8) = <<"2", "5", ".", "0", "1", ".", "2", "8">>

\* A filename of a degraded object.
C11_UnknownDateWitness ==
    /\ ret.op = "filename"
    /\ ~ret.raised
    /\ meta.invoice_date = UNKNOWN
    /\ SubSeq(ret.val.val, 1, 12) = UnknownDate

(***************************************************************************)
(* extract_between_patterns                                                *)
(***************************************************************************)
MaxLines == 4

\* re.search(pattern, line, re.IGNORECASE) is not None
Matches(pattern, line) == Search(Compile(pattern), line).found

\* The scan that goes back to looking for a start line once it has met a
\* stop line.
RECURSIVE ScanRearming(_, _, _, _, _, _, _)
ScanRearming(lines, i, extracting, extracted_lines, start_pattern, stop_pattern, include) ==
    IF i > Len(lines) THEN extracted_lines
    ELSE IF ~extracting /\ Matches(start_pattern, lines[i])
    THEN ScanRearming(lines, i + 1, TRUE,
                      IF include.start THEN Append(extracted_lines, lines[i])
                      ELSE extracted_lines,
                      start_pattern, stop_pattern, include)
    ELSE IF extracting /\ Matches(stop_pattern, lines[i])
    THEN ScanRearming(lines, i + 1, FALSE,
                      IF include.stop THEN Append(extracted_lines, lines[i])
                      ELSE extracted_lines,
                      start_pattern, stop_pattern, include)
    ELSE ScanRearming(lines, i + 1, extracting,
                      IF extracting THEN Append(extracted_lines, lines[i])
                      ELSE extracted_lines,
                      start_pattern, stop_pattern, include)

\* The `for line in lines` loop from line i on: extracted_lines at its end.
RECURSIVE Scan(_, _, _, _, _, _, _)
Scan(lines, i, extracting, extracted_lines, start_pattern, stop_pattern, include) ==
    IF i > Len(lines) THEN extracted_lines
    ELSE IF ~extracting /\ Matches(start_pattern, lines[i])
    THEN \* extracting = True; continue
         Scan(lines, i + 1, TRUE,
              IF include.start THEN Append(extracted_lines, lines[i]) ELSE extracted_lines,
              start_pattern, stop_pattern, include)
    ELSE IF extracting
    THEN IF Matches(stop_pattern, lines[i])
         THEN \* break
              IF include.stop THEN Append(extracted_lines, lines[i]) ELSE extracted_lines
         ELSE Scan(lines, i + 1, extracting, Append(extracted_lines, lines[i]),
                   start_pattern, stop_pattern, include)
    ELSE Scan(lines, i + 1, extracting, extracted_lines,
              start_pattern, stop_pattern, include)

\* extract_between_patterns(text, start_pattern, stop_pattern, include_start,
\* include_stop)
extract_between_patterns(text, start_pattern, stop_pattern, include_start, include_stop) ==
    Scan(SplitAt(text, "\n"), 1, FALSE, <<>>, start_pattern, stop_pattern,
         [start |-> include_start, stop |-> include_stop])

\* str.join
RECURSIVE Join(_, _)
Join(lines, sep) ==
    IF lines = <<>> THEN <<>>
    ELSE IF Len(lines) = 1 THEN lines[1]
    ELSE lines[1] \o <<sep>> \o Join(Tail(lines), sep)

\* Page text, line by line: filler, a start line, a stop line, a line that is
\* both; and texts with empty lines.
PageLines == {<<"x">>, <<"S", "x">>, <<"e">>, <<"s", " ", "e">>}
Pages ==
    (SeqsUpTo(PageLines, MaxLines) \ {<<>>})
    \cup {<< <<>> >>, << <<>>, <<"S", "x">>, <<>> >>, << <<"S", "x">>, <<>>, <<"e">>, <<>> >>}
PatternPairs ==
    {[start |-> <<"s">>, stop |-> <<"e">>], [start |-> <<"s">>, stop |-> <<"S">>],
     [start |-> <<"E">>, stop |-> <<"q">>]}

ExtractBetweenPatterns ==
    \E page \in Pages, pats \in PatternPairs, include_start \in BOOLEAN,
       include_stop \in BOOLEAN :
        /\ call.fn = "none"
        /\ call' = [fn |-> "extract_between_patterns",
                    input |-> [lines |-> page, text |-> Join(page, "\n"),
                               start_pattern |-> pats.start, stop_pattern |-> pats.stop,
                               include_start |-> include_start,
                               include_stop |-> include_stop],
                    out |-> extract_between_patterns(Join(page, "\n"), pats.start, pats.stop,
                                                     include_start, include_stop)]
        /\ UNCHANGED <<metaVars, fileVars>>

NextBetween == ExtractBetweenPatterns

SpecBetween == InitCall /\ [][NextBetween]_vars

\* Whether the line holds the pattern's letter, in either case.
Mentions(line, letter) ==
    \E k \in 1..Len(line) :
        \E j \in 1..26 : /\ letter[1] \in {UpperChars[j], LowerChars[j]}
                         /\ line[k] \in {UpperChars[j], LowerChars[j]}

\* The first line after line `after` that mentions the letter; 0 when none does.
FirstLine(lines, letter, after) ==
    IF \E k \in (after + 1)..Len(lines) : Mentions(lines[k], letter)
    THEN CHOOSE k \in (after + 1)..Len(lines) :
            /\ Mentions(lines[k], letter)
            /\ \A j \in (after + 1)..(k - 1) : ~Mentions(lines[j], letter)
    ELSE 0

\* C12: with s the first line matching start_pattern and e the first line
\* after s matching stop_pattern, extract_between_patterns returns line s (if
\* include_start), then the lines strictly between s and e in order, then
\* line e (if include_stop), and nothing after e; nothing at all when no line
\* matches start_pattern; every line after s when none after it matches
\* stop_pattern.
C12_SinglePassExtraction ==
    call.fn = "extract_between_patterns" =>
        LET in == call.input
            s == FirstLine(in.lines, in.start_pattern, 0)
            e == IF s = 0 THEN 0 ELSE FirstLine(in.lines, in.stop_pattern, s)
            last == IF e = 0 THEN Len(in.lines) ELSE e - 1
        IN  call.out =
              IF s = 0 THEN <<>>
              ELSE (IF in.include_start THEN <<in.lines[s]>> ELSE <<>>)
                   \o SubSeq(in.lines, s + 1, last)
                   \o (IF e # 0 /\ in.include_stop THEN <<in.lines[e]>> ELSE <<>>)

\* "x / Sx / s e / Sx" with both ends included gives "Sx / s e": the second
\* start line, after the stop, is not returned.
C12_Witness ==
    /\ call.fn = "extract_between_patterns"
    /\ call.input.lines = << <<"x">>, <<"S", "x">>, <<"s", " ", "e">>, <<"S", "x">> >>
    /\ call.input.start_pattern = <<"s">>
    /\ call.input.stop_pattern = <<"e">>
    /\ call.input.include_start /\ call.input.include_stop
    /\ call.out = << <<"S", "x">>, <<"s", " ", "e">> >>

(***************************************************************************)
(* MFCNames and load_mfc_names                                             *)
(***************************************************************************)
MaxTableRows == 2

\* The columns of the location-directory table.
Columns ==
    {"ID", "LOCATION_NAME", "FRIENDLY_LOCATION_NAME", "XERO_NAME", "LOCATION_ADDRESS",
     "POSTCODE", "MORRISONS_ID", "MORRISONS_POSTCODE", "BLAKEMORE_POSTCODE",
     "WHOLEGOOD_POSTCODE", "HTDRINKS_POSTCODE", "ONTHEROCKS_POSTCODE"}

\* dict.get(key): None for a key the dict does not have
Get(row, key) == IF key \in DOMAIN row THEN row[key] ELSE None

\* MFCNames.__init__(row)
MFCNames(row) ==
    [id |-> Get(row, "ID"),
     mfc_name |-> Get(row, "LOCATION_NAME"),
     friendly_mfc_name |-> Get(row, "FRIENDLY_LOCATION_NAME"),
     xero_name |-> Get(row, "XERO_NAME"),
     location_address |-> Get(row, "LOCATION_ADDRESS"),
     postcode |-> Get(row, "POSTCODE"),
     morrisons_id |-> Get(row, "MORRISONS_ID"),
     morrisons_postcode |-> Get(row, "MORRISONS_POSTCODE"),
     blakemore_postcode |-> Get(row, "BLAKEMORE_POSTCODE"),
     wholegood_postcode |-> Get(row, "WHOLEOOD_POSTCODE"),
     htdrinks_postcode |-> Get(row, "HTDRINKS_POSTCODE"),
     on_the_rocks_postcode |-> Get(row, "ONTHEROCKS_POSTCODE")]

\* MFCNames.is_valid()
MFCNames_is_valid(self) ==
    /\ Truthy(self.mfc_name)
    /\ Truthy(self.friendly_mfc_name)
    /\ Truthy(self.xero_name)
    /\ Truthy(self.postcode)

\* MFCNames.to_dict()
MFCNames_to_dict(self) ==
    [key \in {"ID", "LOCATION_NAME", "FRIENDLY_LOCATION_NAME", "XERO_NAME",
              "LOCATION_ADDRESS", "POSTCODE", "MORRISONS_ID", "MORRISONS_POSTCODE",
              "BLAKEMORE_POSTCODE", "WHOLEOOD_POSTCODE", "HTDRINKS_POSTCODE",
              "ONTHEROCKS_POSTCODE"} |->
        CASE key = "ID" -> self.id
          [] key = "LOCATION_NAME" -> self.mfc_name
          [] key = "FRIENDLY_LOCATION_NAME" -> self.friendly_mfc_name
          [] key = "XERO_NAME" -> self.xero_name
          [] key = "LOCATION_ADDRESS" -> self.location_address
          [] key = "POSTCODE" -> self.postcode
          [] key = "MORRISONS_ID" -> self.morrisons_id
          [] key = "MORRISONS_POSTCODE" -> self.morrisons_postcode
          [] key = "BLAKEMORE_POSTCODE" -> self.blakemore_postcode
          [] key = "WHOLEOOD_POSTCODE" -> self.wholegood_postcode
          [] key = "HTDRINKS_POSTCODE" -> self.htdrinks_postcode
          [] key = "ONTHEROCKS_POSTCODE" -> self.on_the_rocks_postcode]

\* pd.read_csv on a text cell: a missing value (an empty cell, "NA") is NaN.
ReadCsvCell(cell) == IF cell \in {<<>>, <<"N", "A">>} THEN NaN ELSE Str(cell)

\* load_mfc_names(csv_path), given the cells of the file's data rows (each a
\* function from the header's columns to the cell's text): one MFCNames per
\* row, built from row.to_dict().
load_mfc_names(cells) ==
    [i \in 1..Len(cells) |->
        MFCNames([column \in DOMAIN cells[i] |-> ReadCsvCell(cells[i][column])])]

\* What a caller can observe of a record.
Observed(self) ==
    [record |-> self, is_valid |-> MFCNames_is_valid(self), to_dict |-> MFCNames_to_dict(self)]

\* The text of a filled cell, different for every column.
CellText ==
    [column \in Columns |->
        CASE column = "ID" -> <<"7">>
          [] column = "LOCATION_NAME" -> <<"M", "F", "C", "1">>
          [] column = "FRIENDLY_LOCATION_NAME" -> <<"Y", "o", "r", "k">>
          [] column = "XERO_NAME" -> <<"X", "1">>
          [] column = "LOCATION_ADDRESS" -> <<"1", " ", "R", "d">>
          [] column = "POSTCODE" -> <<"Y", "O", "1">>
          [] column = "MORRISONS_ID" -> <<"m", "7">>
          [] column = "MORRISONS_POSTCODE" -> <<"Y", "O", "2">>
          [] column = "BLAKEMORE_POSTCODE" -> <<"Y", "O", "3">>
          [] column = "WHOLEGOOD_POSTCODE" -> <<"Y", "O", "4">>
          [] column = "HTDRINKS_POSTCODE" -> <<"Y", "O", "5">>
          [] column = "ONTHEROCKS_POSTCODE" -> <<"Y", "O", "6">>]

KeyColumns == {"LOCATION_NAME", "FRIENDLY_LOCATION_NAME", "XERO_NAME", "POSTCODE"}
AltPostcodeColumns ==
    {"MORRISONS_POSTCODE", "BLAKEMORE_POSTCODE", "WHOLEGOOD_POSTCODE", "HTDRINKS_POSTCODE",
     "ONTHEROCKS_POSTCODE"}

\* The row with every column filled.
FullRow == [column \in Columns |-> Str(CellText[column])]

\* Row dicts: every way the four key columns can be absent, None, "" or
\* filled, and every choice of alternate postcodes left blank.
KeyStudyRows ==
    {[column \in (Columns \ {k \in KeyColumns : how[k] = "absent"}) |->
         IF column \in KeyColumns /\ how[column] = "none" THEN None
         ELSE IF column \in KeyColumns /\ how[column] = "empty" THEN Str(<<>>)
         ELSE Str(CellText[column])] :
        how \in [KeyColumns -> {"absent", "none", "empty", "filled"}]}
PostcodeStudyRows ==
    {[column \in Columns |->
         IF column \in blank THEN Str(<<>>) ELSE Str(CellText[column])] :
        blank \in SUBSET AltPostcodeColumns}

\* CSV data rows: every way the four key cells can be empty or filled.
CsvRows ==
    {[column \in Columns |-> IF column \in empty THEN <<>> ELSE CellText[column]] :
        empty \in SUBSET KeyColumns}
CsvTables == UNION {[1..n -> CsvRows] : n \in 1..MaxTableRows}

\* MFCNames(row)
BuildMFCNames(rows) ==
    \E row \in rows :
        /\ call.fn = "none"
        /\ call' = [fn |-> "MFCNames", input |-> [row |-> row],
                    out |-> <<Observed(MFCNames(row))>>]
        /\ UNCHANGED <<metaVars, fileVars>>

\* load_mfc_names(csv_path)
LoadMfcNames ==
    \E cells \in CsvTables :
        /\ call.fn = "none"
        /\ call' = [fn |-> "load_mfc_names", input |-> [cells |-> cells],
                    out |-> [i \in 1..Len(cells) |-> Observed(load_mfc_names(cells)[i])]]
        /\ UNCHANGED <<metaVars, fileVars>>

NextMfc ==
    \/ BuildMFCNames(KeyStudyRows)
    \/ BuildMFCNames(PostcodeStudyRows)
    \/ LoadMfcNames

SpecMfc == InitCall /\ [][NextMfc]_vars

\* Whether the row dict gives the column a non-empty string.
Filled(row, column) ==
    /\ column \in DOMAIN row
    /\ row[column].type = "str"
    /\ row[column].val # <<>>

\* C13: is_valid() of a record is True exactly when LOCATION_NAME,
\* FRIENDLY_LOCATION_NAME, XERO_NAME and POSTCODE are all present and
\* non-empty in the row it was built from; for a record load_mfc_names built,
\* exactly when none of those four cells of its table row is empty.
C13_ValidMeansKeyFieldsFilled ==
    /\ call.fn = "MFCNames" =>
          (call.out[1].is_valid <=> \A column \in KeyColumns : Filled(call.input.row, column))
    /\ call.fn = "load_mfc_names" =>
          \A i \in 1..Len(call.input.cells) :
              call.out[i].is_valid <=>
                  \A column \in KeyColumns : call.input.cells[i][column] # <<>>

\* C13 for records built from a row dict directly.
C13_ValidOnRowDicts ==
    call.fn = "MFCNames" =>
        (call.out[1].is_valid <=> \A column \in KeyColumns : Filled(call.input.row, column))

\* A row whose POSTCODE is "" gives an invalid record, and so does a row
\* without XERO_NAME.
C13_RowDictWitness ==
    /\ call.fn = "MFCNames"
    /\ ~call.out[1].is_valid
    /\ \/ call.input.row = [FullRow EXCEPT !["POSTCODE"] = Str(<<>>)]
       \/ DOMAIN call.input.row = Columns \ {"XERO_NAME"}

\* C14: for a row with all twelve columns, each of the five alternate
\* postcodes of the row is the record's attribute of that name, and to_dict()
\* of the record is the row.
C14_RowRoundTrip ==
    (call.fn = "MFCNames" /\ DOMAIN call.input.row = Columns) =>
        LET row == call.input.row
            self == call.out[1].record
        IN  /\ self.morrisons_postcode = row["MORRISONS_POSTCODE"]
            /\ self.blakemore_postcode = row["BLAKEMORE_POSTCODE"]
            /\ self.wholegood_postcode = row["WHOLEGOOD_POSTCODE"]
            /\ self.htdrinks_postcode = row["HTDRINKS_POSTCODE"]
            /\ self.on_the_rocks_postcode = row["ONTHEROCKS_POSTCODE"]
            /\ call.out[1].to_dict = row

(***************************************************************************)
(* Further properties of adjust_invoice_date_if_overdue                    *)
(***************************************************************************)
\* The date lies on or after (first of the current month - 3 days).
OnOrAfterThreshold(dt, now) ==
    \/ Year(dt) > Year(now)
    \/ Year(dt) = Year(now) /\ Month(dt) >= Month(now)
    \/ ToOrdinal(FirstOfMonth(now)) - ToOrdinal(dt) <= 3

\* C15: a call of adjust_invoice_date_if_overdue on an object whose
\* invoice_date is a date on or after the threshold (the threshold day
\* included) sets po_month to the MM/YY of invoice_date and changes no other
\* attribute.
C15_NotOverdueChangesOnlyMonthTag ==
    (/\ ret.op = "adjust"
     /\ CanonicalDate(ret.input.self).ok
     /\ OnOrAfterThreshold(CanonicalDate(ret.input.self).val, ret.input.today)) =>
        /\ meta.po_month = MonthTag(CanonicalDate(ret.input.self).val)
        /\ meta.invoice_date = ret.input.self.invoice_date
        /\ meta.due_date = ret.input.self.due_date
        /\ meta.po_reference = ret.input.self.po_reference
        /\ meta.invoice_no = ret.input.self.invoice_no
        /\ meta.original_invoice_date = ret.input.self.original_invoice_date
        /\ meta.invoice_type = ret.input.self.invoice_type

\* On 28 February 2025 the threshold is 29 January 2025: an invoice of that
\* day, PO "GUK9", keeps its date and its PO reference.
C15_Witness ==
    /\ ret.op = "adjust"
    /\ ret.input.today = DateTime(2025, 2, 28)
    /\ ret.input.self.invoice_date = <<"2", "0", "2", "5", "-", "0", "1", "-", "2", "9">>
    /\ ret.input.self.po_month = <<"2", "0", "2", "5", "-", "0", "1">>
    /\ meta.invoice_date = <<"2", "0", "2", "5", "-", "0", "1", "-", "2", "9">>
    /\ meta.po_month = <<"0", "1", "/", "2", "5">>
    /\ meta.po_reference = Str(<<"G", "U", "K", "9">>)

\* An exception occurs inside the call: invoice_date is no date, or the
\* invoice is overdue and po_reference is not a string.
ExceptionInside(self, now) ==
    \/ ~CanonicalDate(self).ok
    \/ Overdue(self, now) /\ self.po_reference.type # "str"

\* C16 as stated: whenever an exception occurs inside
\* adjust_invoice_date_if_overdue, none reaches the caller, po_month is
\* "UNKNOWN" afterwards, and invoice_date, due_date and po_reference are what
\* they were before the call.
C16_ExceptionLeavesObjectAsBefore ==
    (ret.op = "adjust" /\ ExceptionInside(ret.input.self, ret.input.today)) =>
        /\ ~ret.raised
        /\ meta.po_month = UNKNOWN
        /\ meta.invoice_date = ret.input.self.invoice_date
        /\ meta.due_date = ret.input.self.due_date
        /\ meta.po_reference = ret.input.self.po_reference

\* C16 as amended: whenever an exception occurs inside
\* adjust_invoice_date_if_overdue, none reaches the caller, po_month is
\* "UNKNOWN" afterwards, and due_date and po_reference are what they were
\* before the call; invoice_date is what it was when it could not be parsed,
\* and is the first day of the current month when the exception came from a
\* po_reference that is not a string (the assignment made before the
\* exception is not rolled back).
C16_ExceptionWithoutRollback ==
    (ret.op = "adjust" /\ ExceptionInside(ret.input.self, ret.input.today)) =>
        /\ ~ret.raised
        /\ meta.po_month = UNKNOWN
        /\ meta.due_date = ret.input.self.due_date
        /\ meta.po_reference = ret.input.self.po_reference
        /\ meta.invoice_date =
             IF CanonicalDate(ret.input.self).ok
             THEN FormatISO(FirstOfMonth(ret.input.today))
             ELSE ret.input.self.invoice_date

\* An invoice of 28 January 2025 with po_reference None, adjusted on 28
\* February 2025: po_month "UNKNOWN", invoice_date 2025-02-01.
C16_Witness ==
    /\ ret.op = "adjust"
    /\ ret.input.today = DateTime(2025, 2, 28)
    /\ ret.input.self.invoice_date = <<"2", "0", "2", "5", "-", "0", "1", "-", "2", "8">>
    /\ ret.input.self.po_reference = None
    /\ meta.po_month = UNKNOWN
    /\ meta.po_reference = None
    /\ meta.invoice_date = <<"2", "0", "2", "5", "-", "0", "2", "-", "0", "1">>

(***************************************************************************)
(* Termination of check_existing_filename                                  *)
(***************************************************************************)
\* C17: a call of check_existing_filename ends after at most (number of files
\* in the working folder + 1) existence checks of its counter loop, and a
\* name returned with the duplicate flag is not in the working folder.
C17_LoopEndsWithFreeName ==
    fres.pc = "named" =>
        /\ fres.checks <= Cardinality(current_folder) + 1
        /\ fres.is_duplicate =>
              /\ fres.filename \notin current_folder
              /\ fres.checks >= 1
              /\ \A k \in 1..(fres.checks - 1) :
                    DuplicateLabel(k, BaseFilename) \in current_folder

\* The working folder holds "Duplicate - ", "(2)" and "(3)": the call makes
\* four checks and returns the "(4)" name.
C17_Witness ==
    /\ fres.pc = "named"
    /\ fres.is_duplicate
    /\ fres.checks = 4
    /\ fres.filename = DuplicateLabel(4, BaseFilename)
    /\ fres.filename \notin current_folder

(***************************************************************************)
(* Calling adjust_invoice_date_if_overdue twice                            *)
(***************************************************************************)
\* This step is a call of adjust_invoice_date_if_overdue that follows
\* another on the same day with nothing in between.
SecondAdjustSameDay ==
    /\ ret.op = "adjust"
    /\ ret.input.today = today
    /\ ret'.op = "adjust"
    /\ ret'.input = [self |-> meta, today |-> today]
    /\ today' = today

\* C18: when a first call re-dated an overdue invoice, a second call on the
\* same day leaves invoice_date and po_reference as the first left them and
\* sets po_month to the MM/YY of the current month, which is not the invoice
\* month the first call recorded; when the first call found the invoice not
\* overdue, the second changes nothing.
C18_SecondAdjustment ==
    [][SecondAdjustSameDay =>
          IF Overdue(ret.input.self, today)
          THEN /\ meta'.invoice_date = meta.invoice_date
               /\ meta'.po_reference = meta.po_reference
               /\ meta'.due_date = meta.due_date
               /\ meta'.po_month = MonthTag(FirstOfMonth(today))
               /\ meta'.po_month # MonthTag(CanonicalDate(ret.input.self).val)
               /\ meta' # meta
          ELSE meta' = meta]_vars

\* After the second call: the object it was called on had already been
\* re-dated to 2025-02-01 and tagged "01/25 invoice", and po_month is now
\* "02/25".
C18_Witness ==
    /\ ret.op = "adjust"
    /\ ret.input.today = DateTime(2025, 2, 28)
    /\ ret.input.self.invoice_date = <<"2", "0", "2", "5", "-", "0", "2", "-", "0", "1">>
    /\ ret.input.self.po_month = <<"0", "1", "/", "2", "5">>
    /\ ret.input.self.po_reference = Str(<<"0", "1", "/", "2", "5">> \o InvoiceSuffix)
    /\ meta.po_reference = Str(<<"0", "1", "/", "2", "5">> \o InvoiceSuffix)
    /\ meta.invoice_date = <<"2", "0", "2", "5", "-", "0", "2", "-", "0", "1">>
    /\ meta.po_month = <<"0", "2", "/", "2", "5">>

(***************************************************************************)
(* The filename's PO suffix after the adjustment                           *)
(***************************************************************************)
\* The invoice has been re-dated: invoice_date is a date and no longer the
\* one given to the constructor.
Redated ==
    /\ args.written.style \in Styles
    /\ CanonicalDate(meta).ok
    /\ CanonicalDate(meta).val # DateTime(args.written.y, args.written.m, args.written.d)

\* The filename of the last generate_standard_filename call with the given
\* PO suffix.
NameWithSuffix(suffix) ==
    LET friendly == ret.input.mfc.friendly_mfc_name
        gross == total_gross(ret.input.financials)
    IN  ExpectedDatePart \o <<" ", "-", " ">> \o short_vendor_name \o <<" ", "-", " ">>
        \o (IF friendly \in {None, Str(<<>>)} THEN UnknownMFC ELSE friendly.val)
        \o <<" ", "-", " ">>
        \o (IF args.invoice_no \in {None, Str(<<>>)} THEN UnknownInvoice
            ELSE args.invoice_no.val)
        \o suffix \o <<" ", "-", " ">>
        \o <<"£">> \o Decimal(gross \div 100) \o <<".">>
        \o <<DigitChars[((gross % 100) \div 10) + 1], DigitChars[(gross % 10) + 1]>>

\* C19: once adjust_invoice_date_if_overdue has re-dated an invoice (whose
\* po_reference was a string), po_reference starts with "<MM/YY> invoice"
\* (two digits, a slash, two digits) and not with "GUK"; a filename
\* generated from then on has no PO suffix, and when the po_reference
\* given at construction started with "GUK" it is not the
\* filename the object gave before the adjustment, which ended in
\* " - {po_reference} - {amount}".
C19_NoPoSuffixAfterRedate ==
    (Redated /\ args.po_reference.type = "str") =>
        LET po == meta.po_reference
        IN  /\ po.type = "str"
            /\ Len(po.val) >= 13
            /\ \A k \in {1, 2, 4, 5} :
                  po.val[k] \in {"0", "1", "2", "3", "4", "5", "6", "7", "8", "9"}
            /\ po.val[3] = "/"
            /\ SubSeq(po.val, 6, 13) = <<" ", "i", "n", "v", "o", "i", "c", "e">>
            /\ ~(Len(po.val) >= 3 /\ SubSeq(po.val, 1, 3) = <<"G", "U", "K">>)
            /\ ret.op = "filename" =>
                  /\ ~ret.raised
                  /\ ret.val = Str(NameWithSuffix(<<>>))
                  /\ LET before == generate_standard_filename(
                                       InvoiceMetadata(args.invoice_no, args.invoice_date,
                                                       args.po_reference, args.invoice_type),
                                       ret.input.mfc, ret.input.financials)
                     IN  StartsWith(args.po_reference.val, GUK) =>
                            /\ before = Returned(Str(NameWithSuffix(
                                            <<" ", "-", " ">> \o args.po_reference.val)))
                            /\ before.val # ret.val

\* The invoice of 28 January 2025 constructed with PO "GUK9", re-dated in
\* February: "25.01.28 - Blakemore - York - A7 - £160.00".
C19_Witness ==
    /\ ret.op = "filename"
    /\ args.po_reference = Str(<<"G", "U", "K", "9">>)
    /\ meta.invoice_date = <<"2", "0", "2", "5", "-", "0", "2", "-", "0", "1">>
    /\ meta.po_reference =
         Str(<<"0", "1", "/", "2", "5">> \o InvoiceSuffix \o <<"\n", "G", "U", "K", "9">>)
    /\ ret.val = Str(<<"2", "5", ".", "0", "1", ".", "2", "8">> \o Dash \o short_vendor_name
                     \o Dash \o <<"Y", "o", "r", "k">> \o Dash \o <<"A", "7">> \o Dash
                     \o <<"£", "1", "6", "0", ".", "0", "0">>)

====
